---- MODULE Spec2Model ----
(***************************************************************************)
(* BeanFlow video generator (src/beanflow_video_generator.py).             *)
(*                                                                         *)
(* Spec       : one run of the pipeline, entered through main() or through *)
(*              generate_video() called by a library user.                 *)
(* SpecClient : the Stock Footage Client's methods called in isolation,    *)
(*              and the variant selection applied to a search result.      *)
(*                                                                         *)
(* Time is exact (rational) arithmetic: one tick is 1/TimeBase of the unit *)
(* the audio length is drawn in, so that total/75 and total/8 are whole    *)
(* numbers of ticks.  IEEE rounding of the Python floats is not modelled.  *)
(***************************************************************************)
EXTENDS Naturals, Sequences, FiniteSets

VARIABLES pc, entry, pexels_api_key, use_pexels, audio, started, requests,
          tts_calls, export_calls, total_duration, duration_per_clip, i,
          clips, video_url, video_path, clip, final_video, exported,
          reported, returned, raised, videos, call, beat

vars == <<pc, entry, pexels_api_key, use_pexels, audio, started, requests,
          tts_calls, export_calls, total_duration, duration_per_clip, i,
          clips, video_url, video_path, clip, final_video, exported,
          reported, returned, raised, videos, call, beat>>

----------------------------------------------------------------------------
(* Bounds of the model *)

\* longest line typed at the credential prompt, in characters
MaxPrompt == 2
\* longest synthesized audio, in units of TimeBase ticks
MaxAudio == 2
\* file variants in one search response, all results together
MaxFiles == 2
\* longest downloaded clip, in units of ClipUnit ticks
MaxClip == 3
\* chunks in a download body
MaxChunks == 2

----------------------------------------------------------------------------
(* Python values *)

\* Python's None
None == <<"None">>

\* bool(x) for a str or a path, or None
Truthy(x) == x /= None /\ Len(x) > 0

\* bool(x) for a list
NonEmpty(x) == Len(x) > 0

\* no clip opened, no track concatenated, no client call made
NoClip ==
    [file |-> None, source_duration |-> 0, duration |-> 0, t_start |-> 0,
     looped |-> FALSE]

NoVideo == [starts |-> <<>>, duration |-> 0, audio |-> 0]

NoCall ==
    [fn |-> "none", net |-> "none", raised |-> "none", requested |-> FALSE,
     written |-> 0, chunks |-> 0]

\* what the steps of the query in hand have returned so far
NoBeat == [query |-> 0, search |-> "none", download |-> "none"]

\* decimal form of a small index, as an f-string renders it
Digits == <<"0", "1", "2", "3", "4", "5", "6", "7", "8", "9">>

Str(n) == Digits[n + 1]

RECURSIVE Sum(_)
Sum(s) == IF s = <<>> THEN 0 ELSE Head(s) + Sum(Tail(s))

\* characters a user can type at the prompt
PromptChars == {" ", "k"}

PromptInputs == UNION {[1..n -> PromptChars] : n \in 0..MaxPrompt}

IsSpace(ch) == ch = " "

RECURSIVE lstrip(_)
lstrip(s) == IF s /= <<>> /\ IsSpace(Head(s)) THEN lstrip(Tail(s)) ELSE s

RECURSIVE rstrip(_)
rstrip(s) ==
    IF s /= <<>> /\ IsSpace(s[Len(s)])
    THEN rstrip(SubSeq(s, 1, Len(s) - 1))
    ELSE s

\* a strip() that leaves the text as typed
strip_keep(s) == s

\* str.strip()
strip(s) == rstrip(lstrip(s))

LowerLetters == <<"a", "b", "c", "d", "e", "f", "g", "h", "i", "j", "k", "l",
                  "m", "n", "o", "p", "q", "r", "s", "t", "u", "v", "w", "x",
                  "y", "z">>

UpperLetters == <<"A", "B", "C", "D", "E", "F", "G", "H", "I", "J", "K", "L",
                  "M", "N", "O", "P", "Q", "R", "S", "T", "U", "V", "W", "X",
                  "Y", "Z">>

Upper(ch) ==
    IF \E k \in DOMAIN LowerLetters : LowerLetters[k] = ch
    THEN UpperLetters[CHOOSE k \in DOMAIN LowerLetters : LowerLetters[k] = ch]
    ELSE ch

\* str.title() of a text held as words, each word <<first letter, rest>>;
\* the rest of every query word is lower case already
title(text) == [k \in DOMAIN text |-> <<Upper(text[k][1]), text[k][2]>>]

----------------------------------------------------------------------------
(* Program constants *)

output_dir == "beanflow_output"

audio_path == <<output_dir, "audio.mp3">>

output_path == <<output_dir, "beanflow_pitch.mp4">>

scenes == <<
    [text |-> <<"BeanFlow", "AI-Powered Coffee Shop Solution">>,
     duration |-> 3],
    [text |-> <<"The Problem:", "Bottleneck at the Register">>,
     duration |-> 8],
    [text |-> <<"Customers wait...", "Baristas are stressed...",
                "Revenue is lost">>,
     duration |-> 8],
    [text |-> <<"The Solution:", "BeanFlow AI System">>, duration |-> 5],
    [text |-> <<"Part 1:", "Seamless Mobile/Kiosk Ordering">>, duration |-> 6],
    [text |-> <<"Part 2:", "Predictive AI Engine">>, duration |-> 8],
    [text |-> <<"Forecast orders before", "they're placed">>, duration |-> 7],
    [text |-> <<"Pre-prep ingredients", "during payment">>, duration |-> 6],
    [text |-> <<"Result:", "20% Faster Service">>, duration |-> 8],
    [text |-> <<"More customers served", "Higher revenue",
                "No extra staff needed">>,
     duration |-> 8],
    [text |-> <<"BeanFlow:", "Your Competitive Advantage">>, duration |-> 5],
    [text |-> <<"Let's discuss your ROI">>, duration |-> 3] >>

queries == <<
    << <<"c", "offee">>, <<"s", "hop">>, <<"b", "usy">> >>,
    << <<"c", "offee">>, <<"b", "arista">>, <<"w", "orking">> >>,
    << <<"p", "eople">>, <<"w", "aiting">>, <<"i", "n">>, <<"l", "ine">> >>,
    << <<"m", "obile">>, <<"p", "hone">>, <<"o", "rdering">> >>,
    << <<"a", "rtificial">>, <<"i", "ntelligence">> >>,
    << <<"c", "offee">>, <<"p", "reparation">> >>,
    << <<"h", "appy">>, <<"c", "ustomers">>, <<"c", "offee">> >>,
    << <<"b", "usiness">>, <<"s", "uccess">> >> >>

\* per_page argument of the search call
per_page == 3

\* sum(d for _, d in scenes)
total_scene_duration == Sum([k \in DOMAIN scenes |-> scenes[k].duration])

\* ticks per unit of audio length: total/75 and total/8 are exact
TimeBase == total_scene_duration * Len(queries)

\* clip lengths are whole multiples of one query's share of a unit of audio
ClipUnit == TimeBase \div Len(queries)

AudioDurations == {n * TimeBase : n \in 1..MaxAudio}

ClipDurations == {k * ClipUnit : k \in 1..MaxClip}

----------------------------------------------------------------------------
(* What the footage provider can answer *)

Qualities == {"hd", "sd"}

\* download link of file variant f of search result v
Url(v, f) == <<"https://videos.pexels.example", Str(v), Str(f)>>

\* a file variant that carries no "link" key
NoLink == <<"no link">>

\* the video_files lists result v can carry (empty: no variants); every
\* variant has a quality tag and carries a link of its own or none
VideoFilesAt(v) ==
    UNION {{[f \in 1..m |->
                [quality |-> r[f][1],
                 link |-> IF r[f][2] THEN Url(v, f) ELSE NoLink]] :
            r \in [1..m -> Qualities \X BOOLEAN]} : m \in 0..MaxFiles}

\* the lists of results v..n that carry at most `budget` variants together
RECURSIVE ResultsFrom(_, _, _)
ResultsFrom(v, n, budget) ==
    IF v > n
    THEN {<<>>}
    ELSE UNION {{<<[video_files |-> fs]>> \o rest :
                    rest \in ResultsFrom(v + 1, n, budget - Len(fs))} :
                fs \in {g \in VideoFilesAt(v) : Len(g) <= budget}}

\* data["videos"]: at most per_page results in the provider's order
SearchResults == UNION {ResultsFrom(1, n, MaxFiles) : n \in 0..per_page}

\* how one search request can go
SearchNets ==
    {[kind |-> k, videos |-> <<>>] :
        k \in {"ConnectionError", "HTTPError", "JSONDecodeError",
               "not an object", "no videos key"}}
    \cup {[kind |-> "ok", videos |-> vs] : vs \in SearchResults}

\* how one download request can go: the body has `chunks` chunks and the
\* failure, if any, strikes while chunk `at` is read or written
AnyDownloadNets ==
    {[kind |-> k, chunks |-> 0, at |-> 0] :
        k \in {"ConnectionError", "HTTPError", "open OSError"}}
    \cup {[kind |-> k, chunks |-> m, at |-> a] :
            k \in {"ChunkedEncodingError", "write OSError"},
            m \in 1..MaxChunks, a \in 1..MaxChunks}
    \cup {[kind |-> "ok", chunks |-> m, at |-> 0] : m \in 0..MaxChunks}

DownloadNets == {net \in AnyDownloadNets : net.at <= net.chunks}

----------------------------------------------------------------------------
(* Stock Footage Client *)

NoException == "none"

\* a handler that catches the requests library's errors only
only_request_errors == {"ConnectionError", "HTTPError"}

\* the classes `except Exception` catches, among those raised here
Exception ==
    {"ConnectionError", "HTTPError", "JSONDecodeError", "AttributeError",
     "OSError", "ChunkedEncodingError"}

\* the try block of search_pexels_videos
search_try(net) ==
    CASE net.kind = "ConnectionError" -> [exc |-> "ConnectionError", val |-> <<>>]
      [] net.kind = "HTTPError"       -> [exc |-> "HTTPError", val |-> <<>>]
      [] net.kind = "JSONDecodeError" -> [exc |-> "JSONDecodeError", val |-> <<>>]
      [] net.kind = "not an object"   -> [exc |-> "AttributeError", val |-> <<>>]
      [] net.kind = "no videos key"   -> [exc |-> NoException, val |-> <<>>]
      [] OTHER                        -> [exc |-> NoException, val |-> net.videos]

search_pexels_videos(key, net) ==
    IF ~Truthy(key)
    THEN [ret |-> <<>>, raised |-> NoException, requested |-> FALSE]
    ELSE LET r == search_try(net)
         IN  IF r.exc = NoException
             THEN [ret |-> r.val, raised |-> NoException, requested |-> TRUE]
             ELSE IF r.exc \in Exception
                  THEN [ret |-> <<>>, raised |-> NoException, requested |-> TRUE]
                  ELSE [ret |-> <<>>, raised |-> r.exc, requested |-> TRUE]

\* for chunk in response.iter_content(...): f.write(chunk), from chunk k + 1
RECURSIVE write_chunks(_, _)
write_chunks(k, net) ==
    IF k = net.chunks
    THEN [exc |-> NoException, written |-> k]
    ELSE IF net.kind = "ChunkedEncodingError" /\ net.at = k + 1
         THEN [exc |-> "ChunkedEncodingError", written |-> k]
         ELSE IF net.kind = "write OSError" /\ net.at = k + 1
              THEN [exc |-> "OSError", written |-> k]
              ELSE write_chunks(k + 1, net)

\* the try block of download_video
download_try(url, filename, net) ==
    CASE net.kind = "ConnectionError" ->
            [exc |-> "ConnectionError", val |-> None, written |-> 0]
      [] net.kind = "HTTPError" ->
            [exc |-> "HTTPError", val |-> None, written |-> 0]
      [] net.kind = "open OSError" ->
            [exc |-> "OSError", val |-> None, written |-> 0]
      [] OTHER ->
            LET w == write_chunks(0, net)
            IN  [exc |-> w.exc,
                 val |-> IF w.exc = NoException
                         THEN <<output_dir>> \o filename ELSE None,
                 written |-> w.written]

download_video(url, filename, net) ==
    LET r == download_try(url, filename, net)
    IN  IF r.exc = NoException
        THEN [ret |-> r.val, raised |-> NoException,
              written |-> r.written, chunks |-> net.chunks]
        ELSE IF r.exc \in Exception
             THEN [ret |-> None, raised |-> NoException,
                   written |-> r.written, chunks |-> net.chunks]
             ELSE [ret |-> None, raised |-> r.exc,
                   written |-> r.written, chunks |-> net.chunks]

\* f"clip_{i}.mp4"
clip_filename(n) == <<"clip_", Str(n), ".mp4">>

----------------------------------------------------------------------------
(* Variant selection, lines 198-202 *)

\* videos and videos[0].get("video_files")
has_candidate(vs) == NonEmpty(vs) /\ NonEmpty(vs[1].video_files)

\* a scan that keeps the last "hd" variant instead of the first
RECURSIVE last_hd(_, _)
last_hd(video_files, rest) ==
    IF rest = <<>>
    THEN video_files[1]
    ELSE IF rest[Len(rest)].quality = "hd"
         THEN rest[Len(rest)]
         ELSE last_hd(video_files, SubSeq(rest, 1, Len(rest) - 1))

\* next((v for v in video_files if v.get("quality") == "hd"), video_files[0])
RECURSIVE first_hd(_, _)
first_hd(video_files, rest) ==
    IF rest = <<>>
    THEN video_files[1]
    ELSE IF Head(rest).quality = "hd"
         THEN Head(rest)
         ELSE first_hd(video_files, Tail(rest))

\* the candidate the loop body works on: videos[0]
candidate(vs) == vs[1]

\* lines 198-202 as a whole: the URL to download, a fallback, or the KeyError
\* of hd_video["link"] on a variant without a link
select_variant(vs) ==
    IF has_candidate(vs)
    THEN LET video_files == candidate(vs).video_files
             hd_video == first_hd(video_files, video_files)
         IN  IF hd_video.link = NoLink
             THEN [outcome |-> "KeyError", url |-> None]
             ELSE [outcome |-> "url", url |-> hd_video.link]
    ELSE [outcome |-> "fallback", url |-> None]

----------------------------------------------------------------------------
(* Slide Renderer and clip fitting *)

\* create_text_slide: an ImageClip of the rendered text held for `duration`;
\* the font fallback chain ends in the built-in font, so it always returns
create_text_slide(text, duration) ==
    [kind |-> "slide", content |-> text, duration |-> duration]

\* VideoFileClip(path) of a file whose video lasts `duration`
VideoFileClip(path, duration) ==
    [file |-> path, source_duration |-> duration, duration |-> duration,
     t_start |-> 0, looped |-> FALSE]

\* clip.loop(duration=d): time runs modulo the source, for d
loop(c, d) == [c EXCEPT !.looped = TRUE, !.duration = d]

\* clip.subclip(t_start, t_end)
subclip(c, t_start, t_end) ==
    [c EXCEPT !.t_start = t_start, !.duration = t_end - t_start]

\* a fitting that leaves a short clip as it is
fit_never_loops(c, d) ==
    IF c.duration < d THEN c ELSE subclip(c, 0, d)

\* lines 210-214
fit_clip(c, d) ==
    IF c.duration < d THEN loop(c, d) ELSE subclip(c, 0, d)

\* what clips.append(clip) adds to the visual track for a footage clip
segment_of(c) == [kind |-> "clip", content |-> c.file, duration |-> c.duration]

\* a fallback slide of the query text as written
fallback_untitled(query, d) == create_text_slide(query, d)

\* lines 219 and 223
fallback_slide(query, d) == create_text_slide(title(query), d)

\* a scale taken over the number of scenes
scale_by_count(total) == total \div Len(scenes)

\* line 157
scale_factor(total) == total \div total_scene_duration

\* line 161
adjusted_duration(duration, total) == duration * scale_factor(total)

\* a share taken over one query too few
share_of_seven(total) == total \div (Len(queries) - 1)

\* line 192
per_clip(total) == total \div Len(queries)

\* concatenate_videoclips(clips, method="compose").set_audio(audio): every
\* segment starts where the ones before it end
RECURSIVE starts_from(_, _)
starts_from(t, durations) ==
    IF durations = <<>>
    THEN <<>>
    ELSE <<t>> \o starts_from(t + Head(durations), Tail(durations))

concatenate_videoclips(cs, audio_duration) ==
    LET durations == [k \in DOMAIN cs |-> cs[k].duration]
    IN  [starts |-> starts_from(0, durations),
         duration |-> Sum(durations),
         audio |-> audio_duration]

\* line 242
footage_mode(flag, key) == flag /\ Truthy(key)

----------------------------------------------------------------------------
(* The run *)

Init ==
    /\ pc = "start"
    /\ entry = "none"
    /\ pexels_api_key = None
    /\ use_pexels = FALSE
    /\ audio = 0
    /\ started = {}
    /\ requests = {}
    /\ tts_calls = 0
    /\ export_calls = 0
    /\ total_duration = 0
    /\ duration_per_clip = 0
    /\ i = 0
    /\ clips = <<>>
    /\ video_url = None
    /\ video_path = None
    /\ clip = NoClip
    /\ final_video = NoVideo
    /\ exported = FALSE
    /\ reported = FALSE
    /\ returned = None
    /\ raised = NoException
    /\ videos = <<>>
    /\ call = NoCall
    /\ beat = NoBeat

\* main(), lines 269-301: prompt, strip, configure the generator
Main ==
    /\ pc = "start"
    /\ entry = "none"
    /\ \E typed \in PromptInputs :
          LET pexels_key == strip(typed)
          IN  IF Truthy(pexels_key)
              THEN pexels_api_key' = pexels_key /\ use_pexels' = TRUE
              ELSE pexels_api_key' = pexels_api_key /\ use_pexels' = FALSE
    /\ entry' = "main"
    /\ pc' = "generate_audio"
    /\ UNCHANGED <<audio, started, requests, tts_calls, export_calls,
                   total_duration, duration_per_clip, i, clips, video_url,
                   video_path, clip, final_video, exported, reported,
                   returned, raised, videos, call, beat>>

\* the keys a library user passes to set_pexels_api_key
LibraryKeys == {<<>>, <<"k">>}

\* set_pexels_api_key, lines 26-28, called by a library user
SetPexelsApiKey ==
    /\ pc = "start"
    /\ entry = "none"
    /\ \E key \in LibraryKeys : pexels_api_key' = key
    /\ entry' = "library"
    /\ UNCHANGED <<pc, use_pexels, audio, started, requests, tts_calls,
                   export_calls, total_duration, duration_per_clip, i, clips,
                   video_url, video_path, clip, final_video, exported,
                   reported, returned, raised, videos, call, beat>>

\* generate_video(script, use_pexels=flag) called by a library user
CallGenerateVideo ==
    /\ pc = "start"
    /\ \E flag \in BOOLEAN : use_pexels' = flag
    /\ entry' = "library"
    /\ pc' = "generate_audio"
    /\ UNCHANGED <<pexels_api_key, audio, started, requests, tts_calls,
                   export_calls, total_duration, duration_per_clip, i, clips,
                   video_url, video_path, clip, final_video, exported,
                   reported, returned, raised, videos, call, beat>>

\* generate_audio, lines 30-38: gTTS writes audio.mp3 or raises
GenerateAudio ==
    /\ pc = "generate_audio"
    /\ tts_calls' = tts_calls + 1
    /\ \/ /\ \E d \in AudioDurations : audio' = d
          /\ pc' = "compose"
          /\ raised' = raised
       \/ /\ audio' = audio
          /\ pc' = "error"
          /\ raised' = "gTTSError"
    /\ UNCHANGED <<entry, pexels_api_key, use_pexels, started, requests,
                   export_calls, total_duration, duration_per_clip, i, clips,
                   video_url, video_path, clip, final_video, exported,
                   reported, returned, videos, call, beat>>

\* create_video_without_pexels, lines 131-169, chosen at line 245
CreateVideoWithoutPexels ==
    /\ pc = "compose"
    /\ ~footage_mode(use_pexels, pexels_api_key)
    /\ started' = started \cup {"slides"}
    /\ total_duration' = audio
    /\ clips' = [k \in DOMAIN scenes |->
                    create_text_slide(scenes[k].text,
                                      adjusted_duration(scenes[k].duration, audio))]
    /\ final_video' = concatenate_videoclips(clips', audio)
    /\ pc' = "export"
    /\ UNCHANGED <<entry, pexels_api_key, use_pexels, audio, requests,
                   tts_calls, export_calls, duration_per_clip, i, video_url,
                   video_path, clip, exported, reported, returned, raised,
                   videos, call, beat>>

\* create_video_with_pexels up to the loop, lines 171-192, chosen at line 243
BeginFootage ==
    /\ pc = "compose"
    /\ footage_mode(use_pexels, pexels_api_key)
    /\ started' = started \cup {"footage"}
    /\ total_duration' = audio
    /\ duration_per_clip' = per_clip(audio)
    /\ clips' = <<>>
    /\ i' = 0
    /\ pc' = "search"
    /\ UNCHANGED <<entry, pexels_api_key, use_pexels, audio, requests,
                   tts_calls, export_calls, video_url, video_path, clip,
                   final_video, exported, reported, returned, raised, videos,
                   call, beat>>

\* lines 195-202: search for query i and choose the variant to download
SearchAndSelect ==
    /\ pc = "search"
    /\ \E net \in SearchNets :
          LET found == search_pexels_videos(pexels_api_key, net)
              chosen == select_variant(found.ret)
          IN  /\ requests' = IF found.requested
                             THEN requests \cup {"search"} ELSE requests
              /\ beat' = [query |-> i, download |-> "none",
                          search |-> IF ~NonEmpty(found.ret) THEN "empty"
                                     ELSE IF has_candidate(found.ret)
                                          THEN "files" ELSE "no files"]
              /\ IF found.raised /= NoException
                 THEN /\ pc' = "error"
                      /\ raised' = found.raised
                      /\ video_url' = video_url
                 ELSE CASE chosen.outcome = "url" ->
                              /\ pc' = "download"
                              /\ raised' = raised
                              /\ video_url' = chosen.url
                        [] chosen.outcome = "fallback" ->
                              /\ pc' = "fallback"
                              /\ raised' = raised
                              /\ video_url' = video_url
                        [] OTHER ->
                              /\ pc' = "error"
                              /\ raised' = chosen.outcome
                              /\ video_url' = video_url
    /\ UNCHANGED <<entry, pexels_api_key, use_pexels, audio, started,
                   tts_calls, export_calls, total_duration, duration_per_clip,
                   i, clips, video_path, clip, final_video, exported,
                   reported, returned, videos, call>>

\* line 205: download the chosen variant to clip_<i>.mp4
Download ==
    /\ pc = "download"
    /\ requests' = requests \cup {"download"}
    /\ \E net \in DownloadNets :
          LET got == download_video(video_url, clip_filename(i), net)
          IN  /\ beat' = [beat EXCEPT !.download =
                              IF got.raised = NoException /\ Truthy(got.ret)
                              THEN "ok" ELSE "failed"]
              /\ IF got.raised /= NoException
                 THEN /\ pc' = "error"
                      /\ raised' = got.raised
                      /\ video_path' = video_path
                 ELSE /\ pc' = "open"
                      /\ raised' = raised
                      /\ video_path' = got.ret
    /\ video_url' = None
    /\ UNCHANGED <<entry, pexels_api_key, use_pexels, audio, started,
                   tts_calls, export_calls, total_duration, duration_per_clip,
                   i, clips, clip, final_video, exported, reported, returned,
                   videos, call>>

\* lines 207-208: open the downloaded file, which moviepy may fail to read
OpenClip ==
    /\ pc = "open"
    /\ Truthy(video_path)
    /\ \/ /\ \E d \in ClipDurations : clip' = VideoFileClip(video_path, d)
          /\ pc' = "fit"
          /\ raised' = raised
       \/ /\ clip' = clip
          /\ pc' = "error"
          /\ raised' = "OSError"
    /\ UNCHANGED <<entry, pexels_api_key, use_pexels, audio, started, requests,
                   tts_calls, export_calls, total_duration, duration_per_clip,
                   i, clips, video_url, video_path, final_video, exported,
                   reported, returned, videos, call, beat>>

\* line 207, else branch: the download returned None
DownloadFailed ==
    /\ pc = "open"
    /\ ~Truthy(video_path)
    /\ pc' = "fallback"
    /\ UNCHANGED <<entry, pexels_api_key, use_pexels, audio, started, requests,
                   tts_calls, export_calls, total_duration, duration_per_clip,
                   i, clips, video_url, video_path, clip, final_video,
                   exported, reported, returned, raised, videos, call, beat>>

\* lines 210-214: loop or trim the clip to the query's share
FitClip ==
    /\ pc = "fit"
    /\ clip' = fit_clip(clip, duration_per_clip)
    /\ pc' = "append"
    /\ UNCHANGED <<entry, pexels_api_key, use_pexels, audio, started, requests,
                   tts_calls, export_calls, total_duration, duration_per_clip,
                   i, clips, video_url, video_path, final_video, exported,
                   reported, returned, raised, videos, call, beat>>

\* a loop that ends one query early
after_query_skips(n) ==
    IF n + 1 < Len(queries) - 1 THEN "search" ELSE "concatenate"

\* the for statement, line 194: the next query, or the end of the loop
after_query(n) == IF n + 1 < Len(queries) THEN "search" ELSE "concatenate"

\* line 216: the footage clip becomes the segment of query i
AppendClip ==
    /\ pc = "append"
    /\ clips' = Append(clips, segment_of(clip))
    /\ clip' = NoClip
    /\ video_path' = None
    /\ i' = i + 1
    /\ pc' = after_query(i)
    /\ UNCHANGED <<entry, pexels_api_key, use_pexels, audio, started, requests,
                   tts_calls, export_calls, total_duration, duration_per_clip,
                   video_url, final_video, exported, reported, returned,
                   raised, videos, call, beat>>

\* lines 219-220 and 223-224: a slide of the query's title stands in
FallbackSlide ==
    /\ pc = "fallback"
    /\ clips' = Append(clips, fallback_slide(queries[i + 1], duration_per_clip))
    /\ video_path' = None
    /\ i' = i + 1
    /\ pc' = after_query(i)
    /\ UNCHANGED <<entry, pexels_api_key, use_pexels, audio, started, requests,
                   tts_calls, export_calls, total_duration, duration_per_clip,
                   video_url, clip, final_video, exported, reported, returned,
                   raised, videos, call, beat>>

\* lines 227-230
Concatenate ==
    /\ pc = "concatenate"
    /\ final_video' = concatenate_videoclips(clips, audio)
    /\ pc' = "export"
    /\ UNCHANGED <<entry, pexels_api_key, use_pexels, audio, started, requests,
                   tts_calls, export_calls, total_duration, duration_per_clip,
                   i, clips, video_url, video_path, clip, exported, reported,
                   returned, raised, videos, call, beat>>

\* an export whose failure is swallowed
ExportIgnoringFailure ==
    /\ pc = "export"
    /\ export_calls' = export_calls + 1
    /\ \/ /\ exported' = TRUE
          /\ raised' = raised
       \/ /\ exported' = exported
          /\ raised' = "IOError"
    /\ pc' = "report"
    /\ UNCHANGED <<entry, pexels_api_key, use_pexels, audio, started, requests,
                   tts_calls, total_duration, duration_per_clip, i, clips,
                   video_url, video_path, clip, final_video, reported,
                   returned, videos, call, beat>>

\* lines 248-258: write_videofile encodes the track or raises
Export ==
    /\ pc = "export"
    /\ export_calls' = export_calls + 1
    /\ \/ /\ exported' = TRUE
          /\ pc' = "report"
          /\ raised' = raised
       \/ /\ exported' = exported
          /\ pc' = "error"
          /\ raised' = "IOError"
    /\ UNCHANGED <<entry, pexels_api_key, use_pexels, audio, started, requests,
                   tts_calls, total_duration, duration_per_clip, i, clips,
                   video_url, video_path, clip, final_video, reported,
                   returned, videos, call, beat>>

\* lines 260-266: report success and return the output path
Report ==
    /\ pc = "report"
    /\ reported' = TRUE
    /\ returned' = output_path
    /\ pc' = "done"
    /\ UNCHANGED <<entry, pexels_api_key, use_pexels, audio, started, requests,
                   tts_calls, export_calls, total_duration, duration_per_clip,
                   i, clips, video_url, video_path, clip, final_video,
                   exported, raised, videos, call, beat>>

Next ==
    \/ Main
    \/ SetPexelsApiKey
    \/ CallGenerateVideo
    \/ GenerateAudio
    \/ CreateVideoWithoutPexels
    \/ BeginFootage
    \/ SearchAndSelect
    \/ Download
    \/ OpenClip
    \/ DownloadFailed
    \/ FitClip
    \/ AppendClip
    \/ FallbackSlide
    \/ Concatenate
    \/ Export
    \/ Report

Spec == Init /\ [][Next]_vars

----------------------------------------------------------------------------
(* The Stock Footage Client on its own *)

\* a generator as constructed, before any method is called
InitClient ==
    /\ pc = "client"
    /\ entry = "library"
    /\ pexels_api_key = None
    /\ use_pexels = FALSE
    /\ audio = 0
    /\ started = {}
    /\ requests = {}
    /\ tts_calls = 0
    /\ export_calls = 0
    /\ total_duration = 0
    /\ duration_per_clip = 0
    /\ i = 0
    /\ clips = <<>>
    /\ video_url = None
    /\ video_path = None
    /\ clip = NoClip
    /\ final_video = NoVideo
    /\ exported = FALSE
    /\ reported = FALSE
    /\ returned = None
    /\ raised = NoException
    /\ videos = <<>>
    /\ call = NoCall
    /\ beat = NoBeat

\* the generator's key when the client is called: never set, or set
ClientKeys == {None} \cup LibraryKeys

\* search_pexels_videos(query, per_page=3), lines 40-56, called directly
ClientSearch ==
    /\ pc = "client"
    /\ \E key \in ClientKeys, net \in SearchNets :
          LET found == search_pexels_videos(key, net)
          IN  /\ pexels_api_key' = key
              /\ videos' = found.ret
              /\ raised' = found.raised
              /\ requests' = IF found.requested THEN {"search"} ELSE {}
              /\ call' = [fn |-> "search_pexels_videos", net |-> net.kind,
                          raised |-> found.raised,
                          requested |-> found.requested,
                          written |-> 0, chunks |-> 0]
              /\ pc' = IF found.raised = NoException
                       THEN "searched" ELSE "error"
    /\ UNCHANGED <<entry, use_pexels, audio, started, tts_calls,
                   export_calls, total_duration, duration_per_clip, i, clips,
                   video_url, video_path, clip, final_video, exported,
                   reported, returned, beat>>

\* lines 198-202 applied to what the search returned
ClientSelect ==
    /\ pc = "searched"
    /\ LET chosen == select_variant(videos)
       IN  /\ video_url' = chosen.url
           /\ pc' = IF chosen.outcome = "url" THEN "selected"
                    ELSE IF chosen.outcome = "fallback" THEN "fallback"
                    ELSE "error"
           /\ raised' = IF chosen.outcome \in {"url", "fallback"}
                        THEN raised ELSE chosen.outcome
    /\ UNCHANGED <<entry, pexels_api_key, use_pexels, audio, started,
                   requests, tts_calls, export_calls, total_duration,
                   duration_per_clip, i, clips, video_path, clip, final_video,
                   exported, reported, returned, videos, call, beat>>

\* download_video(url, f"clip_{n}.mp4"), lines 58-72, called directly
ClientDownload ==
    /\ pc = "client"
    /\ \E n \in 0..(Len(queries) - 1), net \in DownloadNets :
          LET got == download_video(Url(1, 1), clip_filename(n), net)
          IN  /\ i' = n
              /\ video_url' = Url(1, 1)
              /\ video_path' = got.ret
              /\ raised' = got.raised
              /\ call' = [fn |-> "download_video", net |-> net.kind,
                          raised |-> got.raised, requested |-> TRUE,
                          written |-> got.written, chunks |-> got.chunks]
              /\ pc' = IF got.raised = NoException
                       THEN "downloaded" ELSE "error"
    /\ requests' = {"download"}
    /\ UNCHANGED <<entry, pexels_api_key, use_pexels, audio, started,
                   tts_calls, export_calls, total_duration, duration_per_clip,
                   clips, clip, final_video, exported, reported, returned,
                   videos, beat>>

NextClient ==
    \/ ClientSearch
    \/ ClientSelect
    \/ ClientDownload

SpecClient == InitClient /\ [][NextClient]_vars

----------------------------------------------------------------------------
(* Properties *)

Footage == "footage" \in started

SlidesOnly == "slides" \in started

\* the composition is over: the track is concatenated
Composed ==
    \/ pc \in {"export", "report", "done"}
    \/ pc = "error" /\ raised = "IOError"

\* text is query with the first letter of every word in upper case
IsCapitalized(text, query) ==
    /\ Len(text) = Len(query)
    /\ \A w \in DOMAIN query :
          /\ text[w][2] = query[w][2]
          /\ \E l \in DOMAIN LowerLetters :
                /\ query[w][1] = LowerLetters[l]
                /\ text[w][1] = UpperLetters[l]

\* segment s is the fallback slide of query number k (from 1)
IsFallbackSlideOf(s, k) ==
    /\ s.kind = "slide"
    /\ IsCapitalized(s.content, queries[k])
    /\ s.duration * Len(queries) = total_duration

\* segment s is the footage clip of query number k (from 1)
IsClipOf(s, k) ==
    /\ s.kind = "clip"
    /\ s.content = <<output_dir, "clip_", Str(k - 1), ".mp4">>

\* C1: in footage mode a query whose search returned an empty list or whose
\* download failed gets exactly one segment, the slide of its capitalized
\* text lasting total_duration / 8, and nothing else; every slide of the
\* track is the fallback of the query at its position, so eight failures
\* give the eight fallback slides in query order.
C1_FallbackIsOneSlide ==
    Footage =>
      /\ (beat.search = "empty" \/ beat.download = "failed") =>
            IF i = beat.query
            THEN pc \in {"open", "fallback"} /\ Len(clips) = beat.query
            ELSE /\ i = beat.query + 1
                 /\ Len(clips) = beat.query + 1
                 /\ IsFallbackSlideOf(clips[beat.query + 1], beat.query + 1)
      /\ \A k \in DOMAIN clips :
            clips[k].kind = "slide" => IsFallbackSlideOf(clips[k], k)

C1_Witness ==
    /\ pc = "done"
    /\ Footage
    /\ requests = {"search"}
    /\ beat.search = "empty"
    /\ Len(clips) = Len(queries)
    /\ \A k \in DOMAIN clips : IsFallbackSlideOf(clips[k], k)

\* C2: in footage mode no failure of a query's search, choice, download or
\* clip opening ends the run: the composition never stops on an error.
C2_CompositionNeverFatal ==
    ~(pc = "error" /\ Footage /\ export_calls = 0)

\* C3: slide-only mode makes the twelve slides of the scenes in order, slide
\* k lasting nominal_k * audio / 75, and the twelve durations add up to the
\* audio's duration.
C3_SlideScaling ==
    SlidesOnly =>
      /\ Len(clips) = 12
      /\ \A k \in DOMAIN clips :
            /\ clips[k].kind = "slide"
            /\ clips[k].content = scenes[k].text
            /\ clips[k].duration * total_scene_duration
                  = scenes[k].duration * audio
      /\ Sum([k \in DOMAIN clips |-> clips[k].duration]) = audio
      /\ final_video.duration = audio
      /\ audio > 0

C3_Witness ==
    /\ pc = "done"
    /\ SlidesOnly
    /\ audio > TimeBase
    /\ Len(clips) = 12
    /\ clips[2].duration > clips[1].duration

\* C4: a downloaded clip shorter than total_duration / 8 is looped, a longer
\* one is cut to [0, d], an equal one is kept, and the segment lasts exactly
\* d in all three cases; so does every footage segment of the track.
C4_ClipFitsShare ==
    /\ pc = "append" =>
          /\ clip.duration * Len(queries) = total_duration
          /\ clip.source_duration < duration_per_clip => clip.looped
          /\ clip.source_duration >= duration_per_clip =>
                ~clip.looped /\ clip.t_start = 0
    /\ Footage =>
          \A k \in DOMAIN clips :
             clips[k].kind = "clip" =>
                clips[k].duration * Len(queries) = total_duration

C4_Witness ==
    /\ pc = "append"
    /\ clip.looped
    /\ clip.source_duration < clip.duration
    /\ \E k \in DOMAIN clips : clips[k].kind = "clip"

\* C5: when the footage composition completes, the track has eight
\* segments, segment k is the clip or the slide of query k, every segment
\* starts where the ones before it end, and the track lasts as long as the
\* audio.
C5_TrackInOrder ==
    Footage /\ Composed =>
      /\ Len(clips) = 8
      /\ \A k \in DOMAIN clips :
            IsFallbackSlideOf(clips[k], k) \/ IsClipOf(clips[k], k)
      /\ Len(final_video.starts) = 8
      /\ final_video.starts[1] = 0
      /\ \A k \in 1..7 :
            final_video.starts[k + 1] = final_video.starts[k] + clips[k].duration
      /\ final_video.starts[8] + clips[8].duration = audio
      /\ final_video.duration = audio
      /\ final_video.audio = audio

C5_Witness ==
    /\ pc = "done"
    /\ Footage
    /\ clips[1].kind = "slide"
    /\ clips[2].kind = "clip"
    /\ clips[8].kind = "clip"
    /\ final_video.starts[8] > TimeBase

\* C6: the slide-only composer issues no search and no download; the footage
\* composer runs only with the flag set and a non-empty key; a prompt left
\* empty or blank leaves the flag off and the key unset, and a key taken from
\* the prompt has no blank at either end; the two composers never both run,
\* and one of them has run once the composition is over.
C6_ModeSelection ==
    /\ SlidesOnly => requests = {}
    /\ Footage => use_pexels /\ Truthy(pexels_api_key)
    /\ pc /= "start" /\ pc /= "generate_audio" /\ pc /= "error" /\ pc /= "compose"
          => Footage = (use_pexels /\ Truthy(pexels_api_key))
    /\ entry = "main" =>
          IF use_pexels
          THEN /\ Truthy(pexels_api_key)
               /\ ~IsSpace(pexels_api_key[1])
               /\ ~IsSpace(pexels_api_key[Len(pexels_api_key)])
          ELSE pexels_api_key = None
    /\ Cardinality(started) <= 1
    /\ Composed => Cardinality(started) = 1

C6_Witness ==
    /\ pc = "done"
    /\ entry = "library"
    /\ use_pexels
    /\ pexels_api_key = None
    /\ started = {"slides"}
    /\ requests = {}

QueryPcs == {"search", "download", "open", "fit", "append", "fallback"}

\* C7: the audio is written before any composer step; the steps of query i
\* run after the segments of all earlier queries are in place and before any
\* later one; the track is concatenated from all segments before the export
\* starts, and nothing is exported before that.
C7_StageOrder ==
    /\ pc \in {"start", "generate_audio"} =>
          audio = 0 /\ started = {} /\ requests = {} /\ clips = <<>>
    /\ pc \in QueryPcs \cup {"compose", "concatenate"} \/ Composed =>
          audio > 0 /\ tts_calls = 1
    /\ pc \in QueryPcs =>
          /\ Footage
          /\ i < Len(queries)
          /\ Len(clips) = i
          /\ final_video = NoVideo
          /\ export_calls = 0
    /\ pc = "search" => video_url = None /\ video_path = None /\ clip = NoClip
    /\ pc \in {"download", "open", "fit", "append", "fallback"} => beat.query = i
    /\ pc = "concatenate" =>
          i = Len(queries) /\ Len(clips) = Len(queries) /\ export_calls = 0
    /\ Composed =>
          /\ Len(clips) = IF Footage THEN Len(queries) ELSE Len(scenes)
          /\ Len(final_video.starts) = Len(clips)
          /\ export_calls = IF pc = "export" THEN 0 ELSE 1
    /\ exported => pc \in {"report", "done"}

C7_Witness ==
    /\ pc = "download"
    /\ i = 3
    /\ Len(clips) = 3
    /\ clips[3].kind = "clip"
    /\ audio > 0

\* C8: a failed synthesis or a failed export ends the run in an error, with
\* no success report and no output path; after a failed synthesis nothing
\* was searched, downloaded, rendered or exported; neither step runs twice;
\* the report and the path come only after a completed export.
C8_FatalFailures ==
    /\ raised = "gTTSError" =>
          /\ pc = "error"
          /\ started = {} /\ requests = {} /\ clips = <<>>
          /\ export_calls = 0 /\ ~exported
    /\ raised = "IOError" => pc = "error" /\ ~exported
    /\ pc = "error" => ~reported /\ returned = None
    /\ tts_calls <= 1 /\ export_calls <= 1
    /\ reported \/ returned /= None =>
          exported /\ returned = output_path /\ reported /\ pc = "done"

C8_Witness ==
    /\ pc = "error"
    /\ raised = "IOError"
    /\ Footage
    /\ export_calls = 1
    /\ Len(clips) = Len(queries)

\* the variants of the first search result, if there is one
FirstFiles == IF NonEmpty(videos) THEN videos[1].video_files ELSE <<>>

Selected ==
    \/ pc \in {"selected", "fallback"}
    \/ pc = "error" /\ raised = "KeyError"

\* C9: the URL downloaded is the link of the first variant tagged "hd" of
\* the first search result, or of its first variant when none is tagged
\* "hd"; the query falls back to a slide exactly when the first result has
\* no variants, whatever the later results carry.
C9_VariantChoice ==
    Selected =>
      /\ (pc = "fallback") = (Len(FirstFiles) = 0)
      /\ pc = "selected" =>
            \E f \in DOMAIN FirstFiles :
               /\ video_url = FirstFiles[f].link
               /\ video_url = Url(1, f)
               /\ IF \E g \in DOMAIN FirstFiles : FirstFiles[g].quality = "hd"
                  THEN /\ FirstFiles[f].quality = "hd"
                       /\ \A g \in 1..(f - 1) : FirstFiles[g].quality /= "hd"
                  ELSE f = 1

C9_Witness ==
    /\ pc = "selected"
    /\ Len(FirstFiles) = 2
    /\ FirstFiles[1].quality = "sd"
    /\ FirstFiles[1].link /= NoLink
    /\ FirstFiles[2].quality = "hd"
    /\ video_url = Url(1, 2)

FailedSearches ==
    {"ConnectionError", "HTTPError", "JSONDecodeError", "not an object"}

\* C10: neither client method raises; a search without a key returns the
\* empty list and issues no request, and a failed request or decoding
\* returns the empty list; a failed download returns None, and a returned
\* path is clip_<index>.mp4 under the output directory, of no other index,
\* returned with the whole body written.
C10_ClientNeverRaises ==
    /\ call.fn /= "none" => call.raised = NoException /\ pc /= "client"
    /\ call.fn = "search_pexels_videos" =>
          /\ ~Truthy(pexels_api_key) =>
                Len(videos) = 0 /\ ~call.requested /\ requests = {}
          /\ Truthy(pexels_api_key) => call.requested
          /\ call.net \in FailedSearches => Len(videos) = 0
    /\ call.fn = "download_video" =>
          /\ call.net /= "ok" => video_path = None
          /\ video_path /= None =>
                /\ call.written = call.chunks
                /\ video_path = <<output_dir, "clip_", Str(i), ".mp4">>
                /\ \A n \in 0..(Len(queries) - 1) :
                      n /= i =>
                         video_path /= <<output_dir, "clip_", Str(n), ".mp4">>

C10_Witness ==
    /\ pc = "downloaded"
    /\ call.fn = "download_video"
    /\ call.net = "write OSError"
    /\ call.written >= 1
    /\ call.written < call.chunks
    /\ video_path = None

====
